---- MODULE Spec2Model ----
(***************************************************************************)
(* Model of the billing dashboard's API server (src/unnamed/part_000):     *)
(* the in-memory response cache, the GET /api/costs handler with its two   *)
(* concurrent upstream calls, the result normalizer, the summary           *)
(* classifier and the GET /api/credits handler with its aggregator.        *)
(*                                                                         *)
(* Conventions.                                                            *)
(*  - A JavaScript string is a sequence of one-character strings.          *)
(*  - An optional value (undefined / null / a missing field) is a sequence *)
(*    of length 0 (absent) or 1 (present).                                 *)
(*  - A JavaScript number is [nan |-> BOOLEAN, val |-> Int] with val in    *)
(*    hundredths, so 12.50 is 1250; NaN is absorbing under addition.       *)
(*  - Time is in milliseconds since 00:00 UTC of day StartDay (days since  *)
(*    1970-01-01); the full epoch value does not fit TLC's integers.       *)
(***************************************************************************)
EXTENDS Integers, Sequences, FiniteSets, TLC

VARIABLES
    now,      \* Date.now(), ms since midnight of StartDay
    ticks,    \* number of clock advances so far (bounds the exploration)
    cache,    \* the Map `cache`: key -> [expiresAt, value]
    lastSet,  \* history: key -> the time and value of the latest cacheSet
    got,      \* history: the latest cacheGet call and what it returned
    req,      \* the /api/costs requests in flight or answered
    cred,     \* the /api/credits request
    fnIn,     \* input of the pure function under check
    fnOut     \* its output

vars == <<now, ticks, cache, lastSet, got, req, cred, fnIn, fnOut>>

----------------------------------------------------------------------------
(* Bounds of the exploration *)

MaxTicks == 1
NumReqs == 2
MaxGroups == 2
MaxRawLen == 3
StartDay == 19753

(* Program constants *)

CACHE_TTL_MS == 60000
MsPerDay == 86400000
DefaultWindowDays == 30

----------------------------------------------------------------------------
(* Optional values *)

None == <<>>
Some(x) == <<x>>
IsSome(o) == Len(o) = 1
IsNone(o) == Len(o) = 0

(* JavaScript numbers *)

NaN == [nan |-> TRUE, val |-> 0]
Num(v) == [nan |-> FALSE, val |-> v]
Zero == Num(0)
Add(a, b) == IF a.nan \/ b.nan THEN NaN ELSE Num(a.val + b.val)
Abs(a) == IF a.nan THEN NaN ELSE Num(IF a.val < 0 THEN -a.val ELSE a.val)
\* `x || 0` on a number: 0 and NaN are falsy
OrZero(a) == IF a.nan \/ a.val = 0 THEN Zero ELSE a

----------------------------------------------------------------------------
(* Strings and numeric parsing *)

Digits == <<"0", "1", "2", "3", "4", "5", "6", "7", "8", "9">>
IsDigit(c) == \E i \in 1..10 : Digits[i] = c
DigitVal(c) == (CHOOSE i \in 1..10 : Digits[i] = c) - 1
DigitChar(n) == Digits[n + 1]

RECURSIVE DigitRun(_, _)
\* the number of consecutive digits of s starting at position i
DigitRun(s, i) ==
    IF i <= Len(s) /\ IsDigit(s[i]) THEN 1 + DigitRun(s, i + 1) ELSE 0

RECURSIVE DigitsVal(_, _, _)
\* the value of the n digits of s starting at position i
DigitsVal(s, i, n) ==
    IF n = 0 THEN 0
    ELSE 10 * DigitsVal(s, i, n - 1) + DigitVal(s[i + n - 1])

\* The longest prefix of s that is a decimal literal (sign, digits, point,
\* digits): its length (0: none) and its value in hundredths.  Fraction
\* digits beyond the second are dropped; the inputs used have at most two.
DecimalPrefix(s) ==
    LET sl == IF Len(s) > 0 /\ s[1] \in {"-", "+"} THEN 1 ELSE 0
        il == DigitRun(s, sl + 1)
        dot == sl + il + 1 <= Len(s) /\ s[sl + il + 1] = "."
        fl == IF dot THEN DigitRun(s, sl + il + 2) ELSE 0
        ok == il > 0 \/ (dot /\ fl > 0)
        ip == DigitsVal(s, sl + 1, il)
        fp == IF fl = 0 THEN 0
              ELSE IF fl = 1 THEN 10 * DigitVal(s[sl + il + 2])
              ELSE DigitsVal(s, sl + il + 2, 2)
        mag == 100 * ip + fp
    IN  [len |-> IF ~ok THEN 0 ELSE sl + il + (IF dot THEN 1 + fl ELSE 0),
         val |-> IF sl = 1 /\ s[1] = "-" THEN -mag ELSE mag]

\* parseFloat(s): the value of the longest numeric prefix, NaN when none
parseFloat(s) ==
    LET p == DecimalPrefix(s) IN IF p.len = 0 THEN NaN ELSE Num(p.val)

\* Number(s) on a string: 0 for "", NaN unless the whole string is numeric
Number(s) ==
    LET p == DecimalPrefix(s)
    IN  IF Len(s) = 0 THEN Zero
        ELSE IF p.len = Len(s) THEN Num(p.val) ELSE NaN

----------------------------------------------------------------------------
(* Dates *)

\* d.toISOString().slice(0, 10) for the UTC day `day` (days since
\* 1970-01-01): the proleptic Gregorian date as YYYY-MM-DD
isoDate(day) ==
    LET z == day + 719468
        era == z \div 146097
        doe == z - era * 146097
        yoe == (doe - doe \div 1460 + doe \div 36524 - doe \div 146096) \div 365
        doy == doe - (365 * yoe + yoe \div 4 - yoe \div 100)
        mp == (5 * doy + 2) \div 153
        d == doy - (153 * mp + 2) \div 5 + 1
        m == IF mp < 10 THEN mp + 3 ELSE mp - 9
        y == yoe + era * 400 + (IF m <= 2 THEN 1 ELSE 0)
    IN  << DigitChar((y \div 1000) % 10), DigitChar((y \div 100) % 10),
           DigitChar((y \div 10) % 10), DigitChar(y % 10), "-",
           DigitChar(m \div 10), DigitChar(m % 10), "-",
           DigitChar(d \div 10), DigitChar(d % 10) >>

\* the UTC day of the instant t
EpochDay(t) == StartDay + t \div MsPerDay

\* the day number (days since 1970-01-01) of the date s, a YYYY-MM-DD string
DayNumber(s) ==
    LET y0 == DigitsVal(s, 1, 4)
        m == DigitsVal(s, 6, 2)
        d == DigitsVal(s, 9, 2)
        y == IF m <= 2 THEN y0 - 1 ELSE y0
        era == y \div 400
        yoe == y - era * 400
        doy == (153 * (IF m > 2 THEN m - 3 ELSE m + 9) + 2) \div 5 + d - 1
        doe == yoe * 365 + yoe \div 4 - yoe \div 100 + doy
    IN  era * 146097 + doe - 719468

----------------------------------------------------------------------------
(* The response cache *)

\* cache.get(key) is defined
Has(c, key) == key \in DOMAIN c

\* mutant of cacheGetValue: the expiry test is left out
cacheGetValue_NoExpiry(c, key, t) ==
    IF ~Has(c, key) THEN None ELSE Some(c[key].value)

\* cacheGet(key): the value returned (None for null)
cacheGetValue(c, key, t) ==
    IF ~Has(c, key) THEN None
    ELSE IF t > c[key].expiresAt THEN None
    ELSE Some(c[key].value)

\* mutant of cacheGetMap: an expired entry is not deleted
cacheGetMap_NoEvict(c, key, t) == c

\* mutant of cacheGetMap: a hit renews the entry's expiry
cacheGetMap_Refresh(c, key, t) ==
    IF Has(c, key) /\ t > c[key].expiresAt
    THEN [k \in DOMAIN c \ {key} |-> c[k]]
    ELSE IF Has(c, key)
    THEN [c EXCEPT ![key].expiresAt = t + CACHE_TTL_MS]
    ELSE c

\* cacheGet(key): the map afterwards (an expired entry is deleted)
cacheGetMap(c, key, t) ==
    IF Has(c, key) /\ t > c[key].expiresAt
    THEN [k \in DOMAIN c \ {key} |-> c[k]]
    ELSE c

\* mutant of cacheSet: an entry already present is kept
cacheSet_KeepExisting(c, key, value, t) ==
    [k \in DOMAIN c \cup {key} |->
        IF k = key /\ ~Has(c, key)
        THEN [expiresAt |-> t + CACHE_TTL_MS, value |-> value]
        ELSE c[k]]

\* cacheSet(key, value): the map afterwards
cacheSet(c, key, value, t) ==
    [k \in DOMAIN c \cup {key} |->
        IF k = key THEN [expiresAt |-> t + CACHE_TTL_MS, value |-> value]
        ELSE c[k]]

EmptyCache == [k \in {} |-> None]

----------------------------------------------------------------------------
(* Query validation and the cache key (GET /api/costs)                      *)

DAILY == <<"D", "A", "I", "L", "Y">>
MONTHLY == <<"M", "O", "N", "T", "H", "L", "Y">>
SERVICE == <<"S", "E", "R", "V", "I", "C", "E">>
NONE == <<"N", "O", "N", "E">>
USD == <<"U", "S", "D">>

\* /^\d{4}-\d{2}-\d{2}$/
MatchesDate(s) ==
    /\ Len(s) = 10
    /\ \A i \in 1..10 : IF i \in {5, 8} THEN s[i] = "-" ELSE IsDigit(s[i])

\* mutant of safeParse: groupBy is not validated
safeParse_AnyGroupBy(q) ==
    [success |->
        /\ IsSome(q.start) => MatchesDate(q.start[1])
        /\ IsSome(q.end) => MatchesDate(q.end[1])
        /\ IsSome(q.granularity) => q.granularity[1] \in {DAILY, MONTHLY},
     data |->
        [start |-> q.start,
         end |-> q.end,
         granularity |-> IF IsSome(q.granularity) THEN q.granularity[1] ELSE DAILY,
         groupBy |-> IF IsSome(q.groupBy) THEN q.groupBy[1] ELSE SERVICE]]

\* costsQuerySchema.safeParse(req.query): success, and the data with the
\* defaults of granularity and groupBy applied
safeParse(q) ==
    [success |->
        /\ IsSome(q.start) => MatchesDate(q.start[1])
        /\ IsSome(q.end) => MatchesDate(q.end[1])
        /\ IsSome(q.granularity) => q.granularity[1] \in {DAILY, MONTHLY}
        /\ IsSome(q.groupBy) => q.groupBy[1] \in {SERVICE, NONE},
     data |->
        [start |-> q.start,
         end |-> q.end,
         granularity |-> IF IsSome(q.granularity) THEN q.granularity[1] ELSE DAILY,
         groupBy |-> IF IsSome(q.groupBy) THEN q.groupBy[1] ELSE SERVICE]]

\* q.end ?? isoDate(now)
resolveEnd(data, t) ==
    IF IsSome(data.end) THEN data.end[1] ELSE isoDate(EpochDay(t))

\* mutant of resolveStart: the window is counted back from a supplied end
resolveStart_FromEnd(data, t) ==
    IF IsSome(data.start) THEN data.start[1]
    ELSE IF IsSome(data.end) THEN isoDate(DayNumber(data.end[1]) - DefaultWindowDays)
    ELSE isoDate(EpochDay(t) - DefaultWindowDays)

\* q.start ?? isoDate(new Date(now.getTime() - 30 * 24 * 60 * 60 * 1000)):
\* thirty whole days earlier, so the same time of day thirty days back
resolveStart(data, t) ==
    IF IsSome(data.start) THEN data.start[1]
    ELSE isoDate(EpochDay(t) - DefaultWindowDays)

\* JSON.stringify of a string without quotes or backslashes (dates and the
\* two enumerations have none)
JsonStr(s) == <<"\"">> \o s \o <<"\"">>
JsonField(name, s) == <<"\"", name, "\"", ":">> \o JsonStr(s)

\* mutant of cacheKeyOf: groupBy is left out of the key
cacheKeyOf_NoGroupBy(start, end, granularity, groupBy) ==
    <<"{">> \o JsonField("start", start) \o <<",">>
            \o JsonField("end", end) \o <<",">>
            \o JsonField("granularity", granularity) \o <<"}">>

\* JSON.stringify({ start, end, granularity: q.granularity, groupBy: q.groupBy })
cacheKeyOf(start, end, granularity, groupBy) ==
    <<"{">> \o JsonField("start", start) \o <<",">>
            \o JsonField("end", end) \o <<",">>
            \o JsonField("granularity", granularity) \o <<",">>
            \o JsonField("groupBy", groupBy) \o <<"}">>

\* the input of `cmd`, the detail GetCostAndUsageCommand
detailCommand(start, end, granularity, groupBy) ==
    [TimePeriod |-> [Start |-> start, End |-> end],
     Granularity |-> granularity,
     Metrics |-> <<"UnblendedCost", "AmortizedCost", "BlendedCost",
                   "UsageQuantity", "NetUnblendedCost", "NetAmortizedCost">>,
     GroupBy |-> IF groupBy = SERVICE
                 THEN Some(<<[Type |-> "DIMENSION", Key |-> "SERVICE"]>>)
                 ELSE None,
     Filter |-> Some([Not |-> [Key |-> "RECORD_TYPE",
                               Values |-> <<"Credit", "Refund">>]])]

\* the input of `summaryCmd`, the record-type GetCostAndUsageCommand
summaryCommand(start, end) ==
    [TimePeriod |-> [Start |-> start, End |-> end],
     Granularity |-> MONTHLY,
     Metrics |-> <<"UnblendedCost">>,
     GroupBy |-> Some(<<[Type |-> "DIMENSION", Key |-> "RECORD_TYPE"]>>),
     Filter |-> None]

----------------------------------------------------------------------------
(* Result normalizer *)

MetricNames ==
    [unblended |-> "UnblendedCost", amortized |-> "AmortizedCost",
     blended |-> "BlendedCost", usage |-> "UsageQuantity",
     netUnblended |-> "NetUnblendedCost", netAmortized |-> "NetAmortizedCost"]

\* m?.[key]
Lookup(m, key) ==
    IF IsSome(m) /\ key \in DOMAIN m[1] THEN Some(m[1][key]) ELSE None

\* mutant of getMetric: no `?? 0`, so an absent amount is Number(undefined)
getMetric_NoDefault(m, key) ==
    LET obj == Lookup(m, key)
    IN  [amount |-> IF IsSome(obj) /\ IsSome(obj[1].Amount)
                    THEN Number(obj[1].Amount[1]) ELSE NaN,
         unit |-> IF IsSome(obj) /\ IsSome(obj[1].Unit)
                  THEN obj[1].Unit[1] ELSE USD]

\* getMetric(m, key):
\*   { amount: Number(obj?.Amount ?? 0), unit: obj?.Unit ?? "USD" }
getMetric(m, key) ==
    LET obj == Lookup(m, key)
    IN  [amount |-> IF IsSome(obj) /\ IsSome(obj[1].Amount)
                    THEN Number(obj[1].Amount[1]) ELSE Zero,
         unit |-> IF IsSome(obj) /\ IsSome(obj[1].Unit)
                  THEN obj[1].Unit[1] ELSE USD]

\* the six-metric object built for a Total or a group's Metrics
metricSet(m) == [f \in DOMAIN MetricNames |-> getMetric(m, MetricNames[f])]

\* one element of (r.Groups ?? []).map(...)
normalizeGroup(g) ==
    [keys |-> IF IsSome(g.Keys) THEN g.Keys[1] ELSE <<>>,
     metrics |-> metricSet(g.Metrics)]

\* mutant of normalizePeriod: groups without keys are dropped
normalizePeriod_DropKeyless(r) ==
    LET Keyed(g) == IsSome(g.Keys)
        gs == IF IsSome(r.Groups) THEN SelectSeq(r.Groups[1], Keyed) ELSE <<>>
    IN  [start |-> IF IsSome(r.TimePeriod) THEN Some(r.TimePeriod[1].Start) ELSE None,
         end |-> IF IsSome(r.TimePeriod) THEN Some(r.TimePeriod[1].End) ELSE None,
         total |-> metricSet(r.Total),
         groups |-> [i \in 1..Len(gs) |-> normalizeGroup(gs[i])]]

\* one element of (out.ResultsByTime ?? []).map(...)
normalizePeriod(r) ==
    LET gs == IF IsSome(r.Groups) THEN r.Groups[1] ELSE <<>>
    IN  [start |-> IF IsSome(r.TimePeriod) THEN Some(r.TimePeriod[1].Start) ELSE None,
         end |-> IF IsSome(r.TimePeriod) THEN Some(r.TimePeriod[1].End) ELSE None,
         total |-> metricSet(r.Total),
         groups |-> [i \in 1..Len(gs) |-> normalizeGroup(gs[i])]]

\* out.ResultsByTime ?? []
periodsOf(out) == IF IsSome(out.ResultsByTime) THEN out.ResultsByTime[1] ELSE <<>>

\* const results = (out.ResultsByTime ?? []).map(...)
normalize(out) ==
    LET ps == periodsOf(out) IN [i \in 1..Len(ps) |-> normalizePeriod(ps[i])]

----------------------------------------------------------------------------
(* Summary classifier *)

Credit == <<"C", "r", "e", "d", "i", "t">>
Tax == <<"T", "a", "x">>
Refund == <<"R", "e", "f", "u", "n", "d">>
Usage == <<"U", "s", "a", "g", "e">>

EmptySummary ==
    [usage |-> Zero, credit |-> Zero, tax |-> Zero, refund |-> Zero,
     other |-> Zero, total |-> Zero]

\* g.Keys?.[0]
firstKey(g) ==
    IF IsSome(g.Keys) /\ Len(g.Keys[1]) >= 1 THEN Some(g.Keys[1][1]) ELSE None

\* parseFloat(g.Metrics?.UnblendedCost?.Amount || "0")
groupAmount(g) ==
    LET obj == Lookup(g.Metrics, "UnblendedCost")
        raw == IF IsSome(obj) THEN obj[1].Amount ELSE None
    IN  IF IsSome(raw) /\ Len(raw[1]) > 0 THEN parseFloat(raw[1])
        ELSE parseFloat(<<"0">>)

\* mutant of bucketOf: the record type is matched whatever its letter case
bucketOf_AnyCase(type) ==
    IF type \in {Some(Credit), Some(<<"c", "r", "e", "d", "i", "t">>)} THEN "credit"
    ELSE IF type = Some(Tax) THEN "tax"
    ELSE IF type = Some(Refund) THEN "refund"
    ELSE IF type = Some(Usage) THEN "usage"
    ELSE "other"

\* the if / else-if chain on the record type
bucketOf(type) ==
    IF type = Some(Credit) THEN "credit"
    ELSE IF type = Some(Tax) THEN "tax"
    ELSE IF type = Some(Refund) THEN "refund"
    ELSE IF type = Some(Usage) THEN "usage"
    ELSE "other"

\* the body of the inner forEach: one group added to the running summary
addGroup(sum, g) ==
    LET amount == groupAmount(g)
        b == bucketOf(firstKey(g))
    IN  [sum EXCEPT !.total = Add(@, amount), ![b] = Add(@, amount)]

RECURSIVE foldGroups(_, _, _)
\* (r.Groups ?? []).forEach(...) from group i on
foldGroups(sum, gs, i) ==
    IF i > Len(gs) THEN sum ELSE foldGroups(addGroup(sum, gs[i]), gs, i + 1)

RECURSIVE foldPeriods(_, _, _)
\* (summaryOut.ResultsByTime ?? []).forEach(...) from period i on
foldPeriods(sum, ps, i) ==
    IF i > Len(ps) THEN sum
    ELSE foldPeriods(
            foldGroups(sum, IF IsSome(ps[i].Groups) THEN ps[i].Groups[1] ELSE <<>>, 1),
            ps, i + 1)

\* the summary object after both loops
classify(summaryOut) == foldPeriods(EmptySummary, periodsOf(summaryOut), 1)

\* the payload object of a cache miss
payloadOf(start, end, granularity, groupBy, out, summaryOut) ==
    [start |-> start, end |-> end, granularity |-> granularity,
     groupBy |-> groupBy, results |-> normalize(out),
     summary |-> classify(summaryOut)]

----------------------------------------------------------------------------
(* The cache on its own: any sequence of cacheSet, cacheGet and clock       *)
(* advances (specification SpecCache)                                       *)

CacheKeys == { <<"k", "1">>, <<"k", "2">> }
CacheValues == { "v1", "v2" }
\* one advance reaches the last instant an entry is served, or the first it is not
ClockSteps == { CACHE_TTL_MS, CACHE_TTL_MS + 1 }

\* Date.now() moves forward
Advance(d) ==
    /\ ticks < MaxTicks
    /\ now' = now + d
    /\ ticks' = ticks + 1
    /\ got' = None
    /\ UNCHANGED <<cache, lastSet, req, cred, fnIn, fnOut>>

CallCacheSet(k, v) ==
    /\ cache' = cacheSet(cache, k, v, now)
    /\ lastSet' = [lastSet EXCEPT ![k] = Some([at |-> now, value |-> v])]
    /\ got' = None
    /\ UNCHANGED <<now, ticks, req, cred, fnIn, fnOut>>

CallCacheGet(k) ==
    /\ got' = Some([key |-> k, ret |-> cacheGetValue(cache, k, now)])
    /\ cache' = cacheGetMap(cache, k, now)
    /\ UNCHANGED <<now, ticks, lastSet, req, cred, fnIn, fnOut>>

InitCache ==
    /\ now = MsPerDay - CACHE_TTL_MS \div 2
    /\ ticks = 0
    /\ cache = EmptyCache
    /\ lastSet = [k \in CacheKeys |-> None]
    /\ got = None
    /\ req = <<>>
    /\ cred = None
    /\ fnIn = None
    /\ fnOut = None

NextCache ==
    \/ \E d \in ClockSteps : Advance(d)
    \/ \E k \in CacheKeys, v \in CacheValues : CallCacheSet(k, v)
    \/ \E k \in CacheKeys : CallCacheGet(k)

SpecCache == InitCache /\ [][NextCache]_vars

\* C1: cacheGet(key) returns a value only if the latest cacheSet of the key
\* was made at a time t with now <= t + 60000; every entry's expiresAt is
\* its insertion time plus the TTL, whatever reads happened since.
C1_NoStaleRead ==
    /\ \A k \in DOMAIN cache :
          /\ IsSome(lastSet[k])
          /\ cache[k].expiresAt = lastSet[k][1].at + CACHE_TTL_MS
    /\ (IsSome(got) /\ IsSome(got[1].ret)) =>
          /\ IsSome(lastSet[got[1].key])
          /\ now <= lastSet[got[1].key][1].at + CACHE_TTL_MS

\* C1 witness: a read at exactly expiresAt returns the value
C1_Witness ==
    /\ IsSome(got) /\ IsSome(got[1].ret)
    /\ now = lastSet[got[1].key][1].at + CACHE_TTL_MS

\* the state part of C2: what a cacheGet returned and removed
C2_RoundTripState ==
    IsSome(got) =>
        LET k == got[1].key IN
        IsSome(lastSet[k]) =>
            IF now <= lastSet[k][1].at + CACHE_TTL_MS
            THEN got[1].ret = Some(lastSet[k][1].value)
            ELSE got[1].ret = None /\ ~Has(cache, k)

\* the step part of C2: a cacheGet leaves the other keys alone
C2_OthersKept ==
    \A k \in CacheKeys :
        (got' = Some([key |-> k, ret |-> cacheGetValue(cache, k, now)])) =>
            \A o \in CacheKeys \ {k} :
                /\ Has(cache', o) = Has(cache, o)
                /\ Has(cache, o) => cache'[o] = cache[o]

\* C2: a cacheGet within the TTL of the key's latest cacheSet returns exactly
\* the payload of that cacheSet; a cacheGet after the TTL returns null and
\* leaves the key out of the map; a cacheGet changes no other key's entry.
C2_RoundTrip == [](C2_RoundTripState) /\ [][C2_OthersKept]_vars

\* C2 witness: an expired entry has just been looked up and removed while
\* the other key's entry, set in between, is still there
C2_Witness ==
    /\ IsSome(got) /\ got[1].ret = None
    /\ IsSome(lastSet[got[1].key])
    /\ now > lastSet[got[1].key][1].at + CACHE_TTL_MS
    /\ \E o \in CacheKeys \ {got[1].key} : Has(cache, o)

----------------------------------------------------------------------------
(* The server: concurrent GET /api/costs requests over the shared cache     *)
(* (specification Spec)                                                     *)

D0101 == <<"2", "0", "2", "4", "-", "0", "1", "-", "0", "1">>
D0103 == <<"2", "0", "2", "4", "-", "0", "1", "-", "0", "3">>
A1250 == <<"1", "2", ".", "5", "0">>
A4000 == <<"4", "0", ".", "0", "0">>
EC2 == <<"E", "C", "2">>
S3 == <<"S", "3">>

Query(s, e, g, b) == [start |-> s, end |-> e, granularity |-> g, groupBy |-> b]

\* query strings the schema accepts
ValidQueries ==
    { Query(Some(D0101), Some(D0103), Some(DAILY), Some(SERVICE)),
      Query(Some(D0101), Some(D0103), Some(DAILY), Some(NONE)) }

\* query strings the schema rejects, one per field
InvalidQueries ==
    { Query(Some(<<"2", "0", "2", "4", "-", "1", "-", "0", "1">>), Some(D0103), None, None),
      Query(Some(D0101), Some(D0103 \o <<"x">>), None, None),
      Query(None, None, Some(<<"W", "E", "E", "K", "L", "Y">>), None),
      Query(None, None, None, Some(<<"s", "e", "r", "v", "i", "c", "e">>)) }

Queries == ValidQueries \cup InvalidQueries

Amount(s) == [Amount |-> Some(s), Unit |-> Some(USD)]
CostOnly(s) == Some([n \in {"UnblendedCost"} |-> Amount(s)])
RawGroup(key, s) == [Keys |-> Some(<<key>>), Metrics |-> CostOnly(s)]
RawPeriod(total, groups) ==
    [TimePeriod |-> Some([Start |-> D0101, End |-> D0103]),
     Total |-> total, Groups |-> groups]

\* what the detail call may resolve with: groups per service when grouped
\* by SERVICE, the period's total alone when not grouped
DetailOuts(groupBy) ==
    IF groupBy = SERVICE
    THEN { [ResultsByTime |-> Some(<< RawPeriod(None,
                Some(<< RawGroup(EC2, A4000), RawGroup(S3, A1250) >>)) >>)],
           [ResultsByTime |-> Some(<< RawPeriod(None,
                Some(<< RawGroup(S3, A1250) >>)) >>)] }
    ELSE { [ResultsByTime |-> Some(<< RawPeriod(CostOnly(A4000), None) >>)] }

\* what the record-type summary call may resolve with
SummaryOuts ==
    { [ResultsByTime |-> Some(<< RawPeriod(None,
            Some(<< RawGroup(Credit, A1250), RawGroup(Usage, A4000) >>)) >>)] }

Reqs == 1..NumReqs
NoCall == [st |-> "none", out |-> None]
Pending == [st |-> "pending", out |-> None]
IdleReq ==
    [pc |-> "idle", query |-> None, start |-> <<>>, end |-> <<>>,
     granularity |-> <<>>, groupBy |-> <<>>, key |-> <<>>,
     cmd |-> None, summaryCmd |-> None,
     detail |-> NoCall, summary |-> NoCall,
     status |-> 0, body |-> None, sends |-> 0, gets |-> 0, sets |-> 0]

\* mutant of Receive: the upstream results are at hand without an await, so
\* a miss is followed by the cache write and the answer in the same segment
Receive_Sync(r, q) ==
    LET parsed == safeParse(q)
        end == resolveEnd(parsed.data, now)
        start == resolveStart(parsed.data, now)
        key == cacheKeyOf(start, end, parsed.data.granularity, parsed.data.groupBy)
        cached == cacheGetValue(cache, key, now)
        looked == [req[r] EXCEPT
                     !.query = Some(q), !.start = start, !.end = end,
                     !.granularity = parsed.data.granularity,
                     !.groupBy = parsed.data.groupBy, !.key = key, !.gets = 1]
    IN  /\ req[r].pc = "idle"
        /\ r > 1 => req[r - 1].pc # "idle"
        /\ IF ~parsed.success
           THEN /\ req' = [req EXCEPT ![r] =
                            [@ EXCEPT !.pc = "done", !.query = Some(q), !.status = 400]]
                /\ cache' = cache
           ELSE IF IsSome(cached)
           THEN /\ req' = [req EXCEPT ![r] =
                            [looked EXCEPT !.pc = "done", !.status = 200,
                                           !.body = cached]]
                /\ cache' = cache
           ELSE \E out \in DetailOuts(parsed.data.groupBy), sout \in SummaryOuts :
                  LET payload == payloadOf(start, end, parsed.data.granularity,
                                           parsed.data.groupBy, out, sout)
                  IN  /\ cache' = cacheSet(cacheGetMap(cache, key, now), key,
                                           payload, now)
                      /\ req' = [req EXCEPT ![r] =
                            [looked EXCEPT
                                !.pc = "done", !.status = 200,
                                !.body = Some(payload), !.sends = 2, !.sets = 1,
                                !.detail = [st |-> "ok", out |-> Some(out)],
                                !.summary = [st |-> "ok", out |-> Some(sout)]]]
        /\ UNCHANGED <<now, ticks, lastSet, got, cred, fnIn, fnOut>>

\* The handler up to `await Promise.all(...)`: validation, defaults, cache
\* lookup, and on a miss both ce.send calls.  Requests arrive in order.
Receive(r, q) ==
    LET parsed == safeParse(q)
        end == resolveEnd(parsed.data, now)
        start == resolveStart(parsed.data, now)
        key == cacheKeyOf(start, end, parsed.data.granularity, parsed.data.groupBy)
        cached == cacheGetValue(cache, key, now)
        looked == [req[r] EXCEPT
                     !.query = Some(q), !.start = start, !.end = end,
                     !.granularity = parsed.data.granularity,
                     !.groupBy = parsed.data.groupBy, !.key = key, !.gets = 1]
    IN  /\ req[r].pc = "idle"
        /\ r > 1 => req[r - 1].pc # "idle"
        /\ IF ~parsed.success
           THEN /\ req' = [req EXCEPT ![r] =
                            [@ EXCEPT !.pc = "done", !.query = Some(q), !.status = 400]]
                /\ cache' = cache
           ELSE /\ cache' = cacheGetMap(cache, key, now)
                /\ IF IsSome(cached)
                   THEN req' = [req EXCEPT ![r] =
                            [looked EXCEPT !.pc = "done", !.status = 200,
                                           !.body = cached]]
                   ELSE req' = [req EXCEPT ![r] =
                            [looked EXCEPT
                                !.pc = "awaiting",
                                !.cmd = Some(detailCommand(start, end,
                                            parsed.data.granularity,
                                            parsed.data.groupBy)),
                                !.summaryCmd = Some(summaryCommand(start, end)),
                                !.detail = Pending, !.summary = Pending,
                                !.sends = 2]]
        /\ UNCHANGED <<now, ticks, lastSet, got, cred, fnIn, fnOut>>

\* ce.send(cmd) settles: it resolves with a response.  (A call still
\* pending once the handler has answered runs no handler code when it
\* settles, so its settlement is not a step of the model.)
DetailResolves(r, out) ==
    /\ req[r].pc = "awaiting"
    /\ req[r].detail.st = "pending"
    /\ req' = [req EXCEPT ![r].detail = [st |-> "ok", out |-> Some(out)]]
    /\ UNCHANGED <<now, ticks, cache, lastSet, got, cred, fnIn, fnOut>>

\* ce.send(cmd) settles: it rejects
DetailRejects(r) ==
    /\ req[r].pc = "awaiting"
    /\ req[r].detail.st = "pending"
    /\ req' = [req EXCEPT ![r].detail = [st |-> "err", out |-> None]]
    /\ UNCHANGED <<now, ticks, cache, lastSet, got, cred, fnIn, fnOut>>

\* ce.send(summaryCmd) settles: it resolves with a response
SummaryResolves(r, out) ==
    /\ req[r].pc = "awaiting"
    /\ req[r].summary.st = "pending"
    /\ req' = [req EXCEPT ![r].summary = [st |-> "ok", out |-> Some(out)]]
    /\ UNCHANGED <<now, ticks, cache, lastSet, got, cred, fnIn, fnOut>>

\* ce.send(summaryCmd) settles: it rejects
SummaryRejects(r) ==
    /\ req[r].pc = "awaiting"
    /\ req[r].summary.st = "pending"
    /\ req' = [req EXCEPT ![r].summary = [st |-> "err", out |-> None]]
    /\ UNCHANGED <<now, ticks, cache, lastSet, got, cred, fnIn, fnOut>>

\* mutant of Complete: the handler goes on as soon as the detail call has
\* resolved, with an empty summary if the summary call has not
Complete_DetailOnly(r) ==
    LET payload == payloadOf(req[r].start, req[r].end, req[r].granularity,
                             req[r].groupBy, req[r].detail.out[1],
                             IF req[r].summary.st = "ok" THEN req[r].summary.out[1]
                             ELSE [ResultsByTime |-> None])
    IN  /\ req[r].pc = "awaiting"
        /\ req[r].detail.st = "ok"
        /\ cache' = cacheSet(cache, req[r].key, payload, now)
        /\ req' = [req EXCEPT ![r] =
                    [@ EXCEPT !.pc = "done", !.status = 200,
                              !.body = Some(payload), !.sets = @ + 1]]
        /\ UNCHANGED <<now, ticks, lastSet, got, cred, fnIn, fnOut>>

\* The handler after `await Promise.all(...)` fulfilled: normalize,
\* classify, cacheSet, res.json(payload)
Complete(r) ==
    LET payload == payloadOf(req[r].start, req[r].end, req[r].granularity,
                             req[r].groupBy, req[r].detail.out[1],
                             req[r].summary.out[1])
    IN  /\ req[r].pc = "awaiting"
        /\ req[r].detail.st = "ok"
        /\ req[r].summary.st = "ok"
        /\ cache' = cacheSet(cache, req[r].key, payload, now)
        /\ req' = [req EXCEPT ![r] =
                    [@ EXCEPT !.pc = "done", !.status = 200,
                              !.body = Some(payload), !.sets = @ + 1]]
        /\ UNCHANGED <<now, ticks, lastSet, got, cred, fnIn, fnOut>>

\* mutant of Fail: the two calls are issued again instead of answering
Fail_Retry(r) ==
    /\ req[r].pc = "awaiting"
    /\ req[r].detail.st = "err" \/ req[r].summary.st = "err"
    /\ req[r].sends < 4
    /\ req' = [req EXCEPT ![r] = [@ EXCEPT !.detail = Pending, !.summary = Pending,
                                           !.sends = @ + 2]]
    /\ UNCHANGED <<now, ticks, cache, lastSet, got, cred, fnIn, fnOut>>

\* The handler after `await Promise.all(...)` rejected: the catch block
Fail(r) ==
    /\ req[r].pc = "awaiting"
    /\ req[r].detail.st = "err" \/ req[r].summary.st = "err"
    /\ req' = [req EXCEPT ![r] = [@ EXCEPT !.pc = "done", !.status = 500]]
    /\ UNCHANGED <<now, ticks, cache, lastSet, got, cred, fnIn, fnOut>>

Init ==
    /\ now = MsPerDay - CACHE_TTL_MS \div 2
    /\ ticks = 0
    /\ cache = EmptyCache
    /\ lastSet = None
    /\ got = None
    /\ req = [r \in Reqs |-> IdleReq]
    /\ cred = None
    /\ fnIn = None
    /\ fnOut = None

Next ==
    \/ \E d \in ClockSteps : Advance(d)
    \/ \E r \in Reqs, q \in Queries : Receive(r, q)
    \/ \E r \in Reqs : \E out \in DetailOuts(req[r].groupBy) : DetailResolves(r, out)
    \/ \E r \in Reqs : DetailRejects(r)
    \/ \E r \in Reqs, out \in SummaryOuts : SummaryResolves(r, out)
    \/ \E r \in Reqs : SummaryRejects(r)
    \/ \E r \in Reqs : Complete(r)
    \/ \E r \in Reqs : Fail(r)

Spec == Init /\ [][Next]_vars

----------------------------------------------------------------------------
(* Claims about the /api/costs handler (specification Spec)                 *)

Answered(r) == req[r].pc = "done"
FailsNow(r) == req[r].status = 0 /\ req'[r].status = 500

\* every cache entry is the payload a request answered 200 with after its
\* own two upstream calls, stored under that request's key
EntriesFromSuccess ==
    \A k \in DOMAIN cache :
        \E r \in Reqs :
            /\ req[r].status = 200 /\ req[r].sets = 1
            /\ req[r].key = k
            /\ req[r].body = Some(cache[k].value)

\* the state part of C3
C3_FailureState ==
    /\ \A r \in Reqs :
          /\ req[r].sends <= 2
          /\ (Answered(r) /\ "err" \in {req[r].detail.st, req[r].summary.st}) =>
                /\ req[r].status = 500
                /\ req[r].sends = 2
                /\ req[r].sets = 0
    /\ EntriesFromSuccess

\* the step part of C3: the catch block writes nothing, and a 500 stays
C3_FailureStep ==
    \A r \in Reqs :
        /\ FailsNow(r) => cache' = cache
        /\ req[r].status = 500 =>
              /\ req'[r].status = 500
              /\ req'[r].sends = req[r].sends
              /\ req'[r].sets = 0

\* C3: when an upstream call of a /api/costs request fails, the request is
\* answered 500, its two calls are never issued again, the failure handling
\* writes nothing to the cache, and no cache entry stems from the attempt.
C3_UpstreamFailure == [](C3_FailureState) /\ [][C3_FailureStep]_vars

\* C3 witness: a request failed and a later request for the same key missed
\* the cache and went upstream itself
C3_Witness ==
    \E r, l \in Reqs :
        /\ r < l
        /\ req[r].status = 500
        /\ req[l].key = req[r].key
        /\ req[l].pc = "awaiting"
        /\ ~Has(cache, req[r].key)

\* C4: both upstream calls of a request are issued together, before either
\* result is awaited; a request is answered 200 with a fresh payload, and
\* the payload cached, only when both calls have resolved, the payload
\* being built from both responses; once either call has rejected the
\* request is never answered with a payload and caches nothing.
C4_FanOutFanIn ==
    \A r \in Reqs :
        /\ (req[r].detail.st = "none") <=> (req[r].summary.st = "none")
        /\ req[r].pc = "awaiting" =>
              /\ req[r].sends = 2
              /\ req[r].detail.st # "none"
        /\ (req[r].status = 200 /\ req[r].sets = 1) =>
              /\ req[r].detail.st = "ok"
              /\ req[r].summary.st = "ok"
              /\ req[r].body[1].results = normalize(req[r].detail.out[1])
              /\ req[r].body[1].summary = classify(req[r].summary.out[1])
              /\ req[r].gets = 1
        /\ "err" \in {req[r].detail.st, req[r].summary.st} =>
              /\ req[r].status \in {0, 500}
              /\ req[r].body = None
              /\ req[r].sets = 0
              /\ \A k \in DOMAIN cache :
                    req[r].key = k =>
                        \E o \in Reqs \ {r} :
                            req[o].sets = 1 /\ req[o].body = Some(cache[k].value)

\* C4 witness: one call resolved with a response, the other rejected, and
\* the request was answered 500 with its key absent from the cache
C4_Witness ==
    \E r \in Reqs :
        /\ req[r].detail.st = "ok" /\ IsSome(req[r].detail.out)
        /\ req[r].summary.st = "err"
        /\ req[r].status = 500
        /\ ~Has(cache, req[r].key)

\* the state part of C5
C5_InvalidState ==
    \A r \in Reqs :
        (IsSome(req[r].query) /\ req[r].query[1] \in InvalidQueries) =>
            /\ req[r].pc = "done"
            /\ req[r].status = 400
            /\ req[r].sends = 0 /\ req[r].gets = 0 /\ req[r].sets = 0
            /\ req[r].detail.st = "none" /\ req[r].summary.st = "none"

\* the step part of C5: receiving an invalid query leaves the cache alone
C5_InvalidStep ==
    \A r \in Reqs :
        (IsNone(req[r].query) /\ IsSome(req'[r].query)
            /\ req'[r].query[1] \in InvalidQueries) => cache' = cache

\* C5: a request whose query fails validation is answered 400 without any
\* upstream call, any cacheGet or any cacheSet, and the cache is the same
\* after it as before.
C5_ValidationError == [](C5_InvalidState) /\ [][C5_InvalidStep]_vars

\* C5 witness: an invalid request was answered 400 while the cache held an
\* entry
C5_Witness ==
    \E r \in Reqs :
        /\ req[r].status = 400
        /\ req[r].query[1] \in InvalidQueries
        /\ DOMAIN cache # {}

\* the four resolved dimensions of a request or of a payload
Dims(x) == <<x.start, x.end, x.granularity, x.groupBy>>

\* resolved dimensions that differ in each component in turn
SampleDims ==
    { <<s, e, g, b>> : s \in {D0101, D0103}, e \in {D0101, D0103},
                       g \in {DAILY, MONTHLY}, b \in {SERVICE, NONE} }

\* different dimensions give different keys
KeysDistinct ==
    \A x, y \in SampleDims :
        x # y => cacheKeyOf(x[1], x[2], x[3], x[4]) # cacheKeyOf(y[1], y[2], y[3], y[4])

\* C7: requests whose resolved (start, end, granularity, groupBy) differ
\* have different cache keys; the payload stored under a key carries the
\* dimensions of every request with that key; and every 200 response, from
\* the cache or fresh, carries the dimensions of the request it answers.
C7_KeySeparation ==
    /\ KeysDistinct
    /\ \A r, o \in Reqs :
          (req[r].key # <<>> /\ req[o].key # <<>> /\ Dims(req[r]) # Dims(req[o]))
              => req[r].key # req[o].key
    /\ \A k \in DOMAIN cache : \A r \in Reqs :
          req[r].key = k => Dims(cache[k].value) = Dims(req[r])
    /\ \A r \in Reqs :
          req[r].status = 200 => Dims(req[r].body[1]) = Dims(req[r])

\* C7 witness: two requests that differ in groupBy alone have both been
\* answered 200 and the cache holds one entry for each
C7_Witness ==
    \E r, o \in Reqs :
        /\ req[r].status = 200 /\ req[o].status = 200
        /\ req[r].groupBy # req[o].groupBy
        /\ <<req[r].start, req[r].end, req[r].granularity>>
              = <<req[o].start, req[o].end, req[o].granularity>>
        /\ Has(cache, req[r].key) /\ Has(cache, req[o].key)
        /\ cache[req[r].key].value.groupBy = req[r].groupBy
        /\ cache[req[o].key].value.groupBy = req[o].groupBy

----------------------------------------------------------------------------
(* The summary classifier on its own (specification SpecSummary)            *)

AM500 == <<"-", "5", ".", "0", "0">>
AM300 == <<"-", "3", ".", "0", "0">>
ABC == <<"a", "b", "c">>

\* all sequences over S of length at most n
SeqsUpTo(S, n) == UNION { [1..k -> S] : k \in 0..n }

RawGroupOf(keys, amount) ==
    [Keys |-> keys,
     Metrics |-> Some([n \in {"UnblendedCost"} |-> [Amount |-> amount, Unit |-> Some(USD)]])]

\* record types as the upstream may spell them: the four known ones, one in
\* lower case, an unknown one, and groups without a key
RecordTypeKeys ==
    { Some(<<Credit>>), Some(<<Tax>>), Some(<<Refund>>), Some(<<Usage>>),
      Some(<< <<"c", "r", "e", "d", "i", "t">> >>),
      Some(<< <<"S", "u", "p", "p", "o", "r", "t">> >>),
      Some(<<>>), None }

SummaryGroups ==
    { RawGroupOf(k, Some(a)) : k \in RecordTypeKeys, a \in {A1250, A4000, AM500} }
    \cup { RawGroupOf(Some(<<Usage>>), a) : a \in {None, Some(<<>>), Some(ABC)} }
    \cup { [Keys |-> Some(<<Tax>>), Metrics |-> None] }

PeriodOf(gs) == RawPeriod(None, IF Len(gs) = 0 THEN None ELSE Some(gs))

\* a response of two periods holding the groups gs, cut after the c-th
TwoPeriods(gs, c) ==
    [ResultsByTime |->
        Some(<< PeriodOf(SubSeq(gs, 1, c)), PeriodOf(SubSeq(gs, c + 1, Len(gs))) >>)]

NoPeriods == [ResultsByTime |-> None]

ApplyClassify ==
    /\ IsNone(fnOut)
    /\ fnOut' = Some(classify(fnIn))
    /\ UNCHANGED <<now, ticks, cache, lastSet, got, req, cred, fnIn>>

InitSummary ==
    /\ now = MsPerDay - CACHE_TTL_MS \div 2
    /\ ticks = 0
    /\ cache = EmptyCache
    /\ lastSet = None
    /\ got = None
    /\ req = <<>>
    /\ cred = None
    /\ \/ fnIn = NoPeriods
       \/ \E gs \in SeqsUpTo(SummaryGroups, MaxGroups), c \in 0..MaxGroups :
             c <= Len(gs) /\ fnIn = TwoPeriods(gs, c)
    /\ fnOut = None

SpecSummary == InitSummary /\ [][ApplyClassify]_vars

RECURSIVE AllGroups(_)
\* the groups of all periods, in order
AllGroups(ps) ==
    IF Len(ps) = 0 THEN <<>>
    ELSE (IF IsSome(Head(ps).Groups) THEN Head(ps).Groups[1] ELSE <<>>)
            \o AllGroups(Tail(ps))

RECURSIVE SumAmounts(_)
SumAmounts(gs) ==
    IF Len(gs) = 0 THEN Zero ELSE Add(groupAmount(Head(gs)), SumAmounts(Tail(gs)))

KnownTypes == {Credit, Tax, Refund, Usage}
IsType(g, t) == IsSome(g.Keys) /\ Len(g.Keys[1]) >= 1 /\ g.Keys[1][1] = t
OfType(gs, t) == SelectSeq(gs, LAMBDA g : IsType(g, t))
OfNoKnownType(gs) == SelectSeq(gs, LAMBDA g : \A t \in KnownTypes : ~IsType(g, t))

CreditAndUsage ==
    TwoPeriods(<< RawGroupOf(Some(<<Credit>>), Some(A1250)),
                  RawGroupOf(Some(<<Usage>>), Some(A4000)) >>, 2)

\* C8: every group's amount is added to total and to exactly one bucket,
\* chosen by exact match of its first key against Credit, Tax, Refund and
\* Usage, `other` otherwise (a missing key and another letter case
\* included); so total is the sum of all amounts and of the five buckets;
\* Credit 12.50 with Usage 40.00 gives usage 40, credit 12.5, total 52.5.
\* (Sums are those of JavaScript, where NaN absorbs.)
C8_SummaryBuckets ==
    IsSome(fnOut) =>
        LET gs == AllGroups(periodsOf(fnIn))
            sum == fnOut[1]
        IN  /\ sum.total = SumAmounts(gs)
            /\ sum.credit = SumAmounts(OfType(gs, Credit))
            /\ sum.tax = SumAmounts(OfType(gs, Tax))
            /\ sum.refund = SumAmounts(OfType(gs, Refund))
            /\ sum.usage = SumAmounts(OfType(gs, Usage))
            /\ sum.other = SumAmounts(OfNoKnownType(gs))
            /\ sum.total = Add(sum.usage, Add(sum.credit, Add(sum.tax,
                                Add(sum.refund, sum.other))))
            /\ fnIn = CreditAndUsage =>
                  sum = [usage |-> Num(4000), credit |-> Num(1250), tax |-> Zero,
                         refund |-> Zero, other |-> Zero, total |-> Num(5250)]

\* C8 witness: the example of the claim has been classified
C8_Witness == IsSome(fnOut) /\ fnIn = CreditAndUsage

\* C8 witness of the fallback: a lower-case "credit" group went to `other`
C8_OtherReached ==
    /\ IsSome(fnOut)
    /\ \E i \in 1..Len(AllGroups(periodsOf(fnIn))) :
          IsType(AllGroups(periodsOf(fnIn))[i], <<"c", "r", "e", "d", "i", "t">>)
    /\ fnOut[1].other.val # 0

----------------------------------------------------------------------------
(* Credits aggregator and the GET /api/credits handler                      *)

Unknown == <<"U", "n", "k", "n", "o", "w", "n">>

\* g.Keys?.[0] || "Unknown"
creditService(g) ==
    LET k == firstKey(g)
    IN  IF IsSome(k) /\ Len(k[1]) > 0 THEN k[1] ELSE Unknown

\* parseFloat(g.Metrics?.UnblendedCost?.Amount || "0")
creditAmount(g) ==
    LET obj == Lookup(g.Metrics, "UnblendedCost")
        raw == IF IsSome(obj) THEN obj[1].Amount ELSE None
    IN  IF IsSome(raw) /\ Len(raw[1]) > 0 THEN parseFloat(raw[1])
        ELSE parseFloat(<<"0">>)

\* serviceMap is a sequence of [service, amount] in insertion order
\* serviceMap.get(service) || 0
mapGetOrZero(m, service) ==
    IF \E i \in 1..Len(m) : m[i].service = service
    THEN OrZero(m[CHOOSE i \in 1..Len(m) : m[i].service = service].amount)
    ELSE Zero

\* serviceMap.set(service, amount): an existing key keeps its position
mapSet(m, service, amount) ==
    IF \E i \in 1..Len(m) : m[i].service = service
    THEN [i \in 1..Len(m) |->
            IF m[i].service = service THEN [service |-> service, amount |-> amount]
            ELSE m[i]]
    ELSE Append(m, [service |-> service, amount |-> amount])

\* the body of the inner forEach of the credits handler
addCredit(acc, g) ==
    LET service == creditService(g)
        amount == creditAmount(g)
    IN  [totalUsed |-> Add(acc.totalUsed, amount),
         serviceMap |-> mapSet(acc.serviceMap, service,
                               Add(mapGetOrZero(acc.serviceMap, service), amount))]

RECURSIVE foldCreditGroups(_, _, _)
foldCreditGroups(acc, gs, i) ==
    IF i > Len(gs) THEN acc
    ELSE foldCreditGroups(addCredit(acc, gs[i]), gs, i + 1)

RECURSIVE foldCreditPeriods(_, _, _)
foldCreditPeriods(acc, ps, i) ==
    IF i > Len(ps) THEN acc
    ELSE foldCreditPeriods(
            foldCreditGroups(acc, IF IsSome(ps[i].Groups) THEN ps[i].Groups[1] ELSE <<>>, 1),
            ps, i + 1)

\* .map(([service, amount]) => ({ service, amount: Math.abs(amount) }))
absEntries(m) ==
    [i \in 1..Len(m) |-> [service |-> m[i].service, amount |-> Abs(m[i].amount)]]

\* one step of a stable descending sort: e goes after every element that
\* is not smaller
insertDesc(sorted, e) ==
    LET smaller == { i \in 1..Len(sorted) : sorted[i].amount.val < e.amount.val }
        at == IF smaller = {} THEN Len(sorted) + 1
              ELSE CHOOSE i \in smaller : \A j \in smaller : i <= j
    IN  SubSeq(sorted, 1, at - 1) \o <<e>> \o SubSeq(sorted, at, Len(sorted))

RECURSIVE stableSortDesc(_, _, _)
stableSortDesc(sorted, es, i) ==
    IF i > Len(es) THEN sorted
    ELSE stableSortDesc(insertDesc(sorted, es[i]), es, i + 1)

\* .sort((a, b) => b.amount - a.amount): the stable descending order; with
\* a NaN amount the comparator is not consistent and the language leaves
\* the resulting order to the implementation, so any order may come out
sortOutcomes(es) ==
    IF \E i \in 1..Len(es) : es[i].amount.nan
    THEN { [i \in 1..Len(es) |-> es[p[i]]] : p \in Permutations(1..Len(es)) }
    ELSE { stableSortDesc(<<>>, es, 1) }

\* totalUsed and serviceMap after both loops
aggregate(out) ==
    foldCreditPeriods([totalUsed |-> Zero, serviceMap |-> <<>>], periodsOf(out), 1)

\* the payloads res.json may be given on success
creditsPayloads(out) ==
    LET acc == aggregate(out)
    IN  { [total_used |-> Abs(acc.totalUsed), by_service |-> by] :
            by \in sortOutcomes(absEntries(acc.serviceMap)) }

\* the fallback payload of the catch block
ZeroCredits == [total_used |-> Zero, by_service |-> <<>>]

IdleCred ==
    [pc |-> "idle", call |-> "none", status |-> 0, body |-> None,
     sends |-> 0, gets |-> 0, sets |-> 0]

\* the handler up to `await ce.send(cmd)`
CreditsReceive ==
    /\ cred.pc = "idle"
    /\ cred' = [cred EXCEPT !.pc = "awaiting", !.call = "pending", !.sends = 1]
    /\ UNCHANGED <<now, ticks, cache, lastSet, got, req, fnIn, fnOut>>

\* ce.send(cmd) resolved with `out`: aggregation and res.json
CreditsResolves(out) ==
    /\ cred.pc = "awaiting"
    /\ fnIn' = Some(out)
    /\ \E payload \in creditsPayloads(out) :
          cred' = [cred EXCEPT !.pc = "done", !.call = "ok", !.status = 200,
                               !.body = Some(payload)]
    /\ UNCHANGED <<now, ticks, cache, lastSet, got, req, fnOut>>

\* mutant of CreditsRejects: the failure is surfaced as on the costs path
CreditsRejects_Surfaced ==
    /\ cred.pc = "awaiting"
    /\ cred' = [cred EXCEPT !.pc = "done", !.call = "err", !.status = 500]
    /\ UNCHANGED <<now, ticks, cache, lastSet, got, req, fnIn, fnOut>>

\* ce.send(cmd) rejected: the catch block
CreditsRejects ==
    /\ cred.pc = "awaiting"
    /\ cred' = [cred EXCEPT !.pc = "done", !.call = "err", !.status = 200,
                            !.body = Some(ZeroCredits)]
    /\ UNCHANGED <<now, ticks, cache, lastSet, got, req, fnIn, fnOut>>

\* services and amounts the upstream may report for credits
CreditGroups ==
    { RawGroupOf(k, Some(a)) :
        k \in {Some(<<EC2>>), Some(<<S3>>), Some(<< <<>> >>), None},
        a \in {AM500, AM300, A1250} }
    \cup { RawGroupOf(Some(<<EC2>>), a) : a \in {None, Some(<<>>), Some(ABC)} }

\* a cache as a /api/costs request leaves it
OneEntryCache ==
    cacheSet(EmptyCache, cacheKeyOf(D0101, D0103, DAILY, NONE),
             payloadOf(D0101, D0103, DAILY, NONE,
                       [ResultsByTime |-> None], [ResultsByTime |-> None]),
             MsPerDay - CACHE_TTL_MS)

InitCredits ==
    /\ now = MsPerDay - CACHE_TTL_MS \div 2
    /\ ticks = 0
    /\ cache \in {EmptyCache, OneEntryCache}
    /\ lastSet = None
    /\ got = None
    /\ req = <<>>
    /\ cred = IdleCred
    /\ fnIn = None
    /\ fnOut = None

NextCredits ==
    \/ CreditsReceive
    \/ CreditsResolves(NoPeriods)
    \/ \E gs \in SeqsUpTo(CreditGroups, MaxGroups), c \in 0..MaxGroups :
          c <= Len(gs) /\ CreditsResolves(TwoPeriods(gs, c))
    \/ CreditsRejects

SpecCredits == InitCredits /\ [][NextCredits]_vars

\* the state part of C6
C6_CreditsState ==
    /\ cred.status \in {0, 200}
    /\ cred.gets = 0 /\ cred.sets = 0
    /\ cred.sends <= 1
    /\ cred.pc = "done" =>
          /\ cred.status = 200
          /\ IsSome(cred.body)
          /\ cred.call = "err" => cred.body[1] = ZeroCredits
          /\ cred.call = "ok" =>
                cred.body[1].by_service \in
                    sortOutcomes(absEntries(aggregate(fnIn[1]).serviceMap))

\* the step part of C6: no step of the credits handler changes the cache
C6_CreditsStep == cred' # cred => cache' = cache

\* C6: /api/credits never answers with an error status: a failed upstream
\* call gives 200 with {total_used: 0, by_service: []}, a successful one 200
\* with a payload; the handler never calls cacheGet or cacheSet and leaves
\* the cache as it is.
C6_CreditsNeverError == [](C6_CreditsState) /\ [][C6_CreditsStep]_vars

\* C6 witness: the upstream call failed and the zero payload went out with
\* status 200 while the cache held an entry
C6_Witness ==
    /\ cred.pc = "done" /\ cred.call = "err"
    /\ cred.status = 200 /\ cred.body = Some(ZeroCredits)
    /\ DOMAIN cache # {}

\* the service a group counts under: its first key, "Unknown" without one
ServiceNameOf(g) ==
    IF IsSome(g.Keys) /\ Len(g.Keys[1]) >= 1 /\ Len(g.Keys[1][1]) > 0
    THEN g.Keys[1][1] ELSE Unknown

\* the amount of a group as a number: what it parses to, zero when it does
\* not parse
NumericAmount(g) == IF creditAmount(g).nan THEN Zero ELSE creditAmount(g)

RECURSIVE SumNumeric(_)
SumNumeric(gs) ==
    IF Len(gs) = 0 THEN Zero ELSE Add(NumericAmount(Head(gs)), SumNumeric(Tail(gs)))

CreditsAnswer(by, total, gs) ==
    LET names == { ServiceNameOf(gs[i]) : i \in 1..Len(gs) }
    IN  /\ { by[i].service : i \in 1..Len(by) } = names
        /\ Len(by) = Cardinality(names)
        /\ \A i \in 1..Len(by) :
              by[i].amount =
                Abs(SumNumeric(SelectSeq(gs, LAMBDA g : ServiceNameOf(g) = by[i].service)))
        /\ \A i, j \in 1..Len(by) :
              i < j => (~by[i].amount.nan /\ ~by[j].amount.nan
                            /\ by[i].amount.val >= by[j].amount.val)
        /\ total = Abs(SumNumeric(gs))
        /\ ~total.nan /\ total.val >= 0

\* C10: by_service has exactly one entry per distinct service name of the
\* response ("Unknown" for a group without one), its amount the absolute
\* value of the sum of that service's amounts over all periods; by_service
\* is in descending order of amount; total_used is the non-negative
\* absolute value of the sum of all amounts.
C10_CreditsAggregate ==
    (cred.pc = "done" /\ cred.call = "ok") =>
        CreditsAnswer(cred.body[1].by_service, cred.body[1].total_used,
                      AllGroups(periodsOf(fnIn[1])))

\* the same on the responses all of whose amounts parse
C10_OnNumericAmounts ==
    (cred.pc = "done" /\ cred.call = "ok") =>
        LET gs == AllGroups(periodsOf(fnIn[1]))
        IN  (\A i \in 1..Len(gs) : ~creditAmount(gs[i]).nan) =>
                CreditsAnswer(cred.body[1].by_service, cred.body[1].total_used, gs)

----------------------------------------------------------------------------
(* Amount parsing on its own (specification SpecParse)                      *)

RawAlphabet == {"1", "5", ".", "-", "a"}

\* the three places an Amount is parsed: getMetric, the summary classifier
\* and the credits aggregator
ApplyParse ==
    LET g == RawGroupOf(None, fnIn)
    IN  /\ IsNone(fnOut)
        /\ fnOut' = Some([metric |-> getMetric(g.Metrics, "UnblendedCost").amount,
                          summary |-> groupAmount(g),
                          credits |-> creditAmount(g)])
        /\ UNCHANGED <<now, ticks, cache, lastSet, got, req, cred, fnIn>>

InitParse ==
    /\ now = MsPerDay - CACHE_TTL_MS \div 2
    /\ ticks = 0
    /\ cache = EmptyCache
    /\ lastSet = None
    /\ got = None
    /\ req = <<>>
    /\ cred = None
    /\ \/ fnIn = None
       \/ \E a \in SeqsUpTo(RawAlphabet, MaxRawLen) : fnIn = Some(a)
    /\ fnOut = None

SpecParse == InitParse /\ [][ApplyParse]_vars

\* a string that is a decimal number from its first to its last character
IsNumericString(a) == Len(a) > 0 /\ DecimalPrefix(a).len = Len(a)

\* C9: an amount that is absent, empty or not numeric is parsed to 0 by
\* getMetric, by the summary classifier and by the credits aggregator
\* (never NaN, never another value).
C9_ParseToZero ==
    (IsSome(fnOut) /\ (IsNone(fnIn) \/ ~IsNumericString(fnIn[1]))) =>
        /\ fnOut[1].metric = Zero
        /\ fnOut[1].summary = Zero
        /\ fnOut[1].credits = Zero

\* what the three parsers do agree on: absent and empty amounts are 0
C9_AbsentOrEmptyIsZero ==
    (IsSome(fnOut) /\ (IsNone(fnIn) \/ Len(fnIn[1]) = 0)) =>
        /\ fnOut[1].metric = Zero
        /\ fnOut[1].summary = Zero
        /\ fnOut[1].credits = Zero

----------------------------------------------------------------------------
(* The result normalizer on its own (specification SpecNormalize)           *)

D0105 == <<"2", "0", "2", "4", "-", "0", "1", "-", "0", "5">>
Hrs == <<"H", "r", "s">>

\* a Metrics / Total object carrying all six metrics
AllSix ==
    Some([n \in {MetricNames[f] : f \in DOMAIN MetricNames} |->
            IF n = "UsageQuantity" THEN [Amount |-> Some(A1250), Unit |-> Some(Hrs)]
            ELSE Amount(A4000)])

\* Metrics / Total objects as the upstream may send them: absent, the cost
\* alone, all six, a usage metric without its amount, a non-numeric amount
RawMetrics ==
    { None, CostOnly(A4000), AllSix,
      Some([n \in {"UsageQuantity"} |-> [Amount |-> None, Unit |-> Some(Hrs)]]),
      CostOnly(ABC) }

DetailGroups ==
    { [Keys |-> k, Metrics |-> m] :
        k \in {Some(<<EC2>>), Some(<<S3>>), None}, m \in RawMetrics }

DetailPeriod(tp, total, gs) ==
    [TimePeriod |-> tp, Total |-> total,
     Groups |-> IF Len(gs) = 0 THEN None ELSE Some(gs)]

\* a detail response of two periods holding the groups gs, cut after the
\* c-th; the second period carries no TimePeriod when tp is None
DetailOf(gs, c, total, tp) ==
    [ResultsByTime |->
        Some(<< DetailPeriod(Some([Start |-> D0101, End |-> D0103]), total,
                             SubSeq(gs, 1, c)),
                DetailPeriod(tp, None, SubSeq(gs, c + 1, Len(gs))) >>)]

ApplyNormalize ==
    /\ IsNone(fnOut)
    /\ fnOut' = Some(normalize(fnIn))
    /\ UNCHANGED <<now, ticks, cache, lastSet, got, req, cred, fnIn>>

InitNormalize ==
    /\ now = MsPerDay - CACHE_TTL_MS \div 2
    /\ ticks = 0
    /\ cache = EmptyCache
    /\ lastSet = None
    /\ got = None
    /\ req = <<>>
    /\ cred = None
    /\ \/ fnIn = NoPeriods
       \/ fnIn = [ResultsByTime |-> Some(<<>>)]
       \/ \E gs \in SeqsUpTo(DetailGroups, MaxGroups), c \in 0..MaxGroups :
             \E total \in {None, CostOnly(A4000), AllSix},
                tp \in {None, Some([Start |-> D0103, End |-> D0105])} :
                c <= Len(gs) /\ fnIn = DetailOf(gs, c, total, tp)
    /\ fnOut = None

SpecNormalize == InitNormalize /\ [][ApplyNormalize]_vars

\* the raw groups of a period
GroupsOf(r) == IF IsSome(r.Groups) THEN r.Groups[1] ELSE <<>>

\* the metric set ms is complete, and zero in USD where the raw object m
\* lacks the metric
FullyPopulated(ms, m) ==
    /\ DOMAIN ms = {"unblended", "amortized", "blended", "usage",
                    "netUnblended", "netAmortized"}
    /\ \A f \in DOMAIN ms :
          /\ DOMAIN ms[f] = {"amount", "unit"}
          /\ (IsNone(m) \/ MetricNames[f] \notin DOMAIN m[1]) =>
                ms[f] = [amount |-> Zero, unit |-> USD]

\* C11: the total of every normalized period and the metrics of every
\* normalized group carry all six metrics, and a metric the raw record
\* lacks (no such field, no Metrics, no Total) is {amount: 0, unit: "USD"};
\* normalization yields a result for every such response.
C11_SixMetrics ==
    IsSome(fnOut) =>
        LET ps == periodsOf(fnIn)
            results == fnOut[1]
        IN  /\ DOMAIN results = DOMAIN ps
            /\ \A i \in DOMAIN results :
                  /\ FullyPopulated(results[i].total, ps[i].Total)
                  /\ DOMAIN results[i].groups = DOMAIN GroupsOf(ps[i])
                  /\ \A j \in DOMAIN results[i].groups :
                        FullyPopulated(results[i].groups[j].metrics,
                                       GroupsOf(ps[i])[j].Metrics)

\* C11 witness: a normalized period without Total holding a group without
\* UsageQuantity and a group without Metrics
C11_Witness ==
    /\ IsSome(fnOut)
    /\ \E i \in DOMAIN periodsOf(fnIn) :
          LET r == periodsOf(fnIn)[i]
              gs == GroupsOf(r)
          IN  /\ IsNone(r.Total)
              /\ \E j, k \in DOMAIN gs :
                    /\ IsSome(gs[j].Metrics)
                    /\ "UsageQuantity" \notin DOMAIN gs[j].Metrics[1]
                    /\ fnOut[1][i].groups[j].metrics.usage = [amount |-> Zero, unit |-> USD]
                    /\ IsNone(gs[k].Metrics)
                    /\ fnOut[1][i].groups[k].metrics.unblended = [amount |-> Zero, unit |-> USD]

\* C12: the results list has one entry per upstream period in upstream
\* order, each entry's groups one group per upstream group of that period in
\* upstream order with the upstream keys; a response without a period list
\* yields the empty list.
C12_OrderPreserved ==
    IsSome(fnOut) =>
        LET ps == periodsOf(fnIn)
            results == fnOut[1]
        IN  /\ Len(results) = Len(ps)
            /\ IsNone(fnIn.ResultsByTime) => results = <<>>
            /\ \A i \in 1..Len(ps) :
                  /\ IsSome(ps[i].TimePeriod) =>
                        /\ results[i].start = Some(ps[i].TimePeriod[1].Start)
                        /\ results[i].end = Some(ps[i].TimePeriod[1].End)
                  /\ results[i].total = metricSet(ps[i].Total)
                  /\ Len(results[i].groups) = Len(GroupsOf(ps[i]))
                  /\ \A j \in 1..Len(GroupsOf(ps[i])) :
                        LET g == GroupsOf(ps[i])[j]
                        IN  /\ results[i].groups[j].keys =
                                  (IF IsSome(g.Keys) THEN g.Keys[1] ELSE <<>>)
                            /\ results[i].groups[j].metrics = metricSet(g.Metrics)

\* C12 witness: two periods with different dates were normalized, the first
\* holding two groups with different keys in an order a sort would change
C12_Witness ==
    /\ IsSome(fnOut)
    /\ Len(fnOut[1]) = 2
    /\ fnOut[1][1].start = Some(D0101) /\ fnOut[1][2].start = Some(D0103)
    /\ Len(fnOut[1][1].groups) = 2
    /\ fnOut[1][1].groups[1].keys = <<S3>>
    /\ fnOut[1][1].groups[2].keys = <<EC2>>
    /\ fnOut[1][1].groups[1].metrics.unblended.amount = Zero
    /\ fnOut[1][1].groups[2].metrics.unblended.amount = Num(4000)

----------------------------------------------------------------------------
(* The defaults of the /api/costs query: one request with any combination   *)
(* of supplied and omitted parameters, on either side of midnight           *)
(* (specification SpecDefaults)                                             *)

\* every valid combination of a supplied or omitted start, end, granularity
\* and groupBy
DefaultQueries ==
    { Query(s, e, g, b) :
        s \in {None, Some(D0101)}, e \in {None, Some(D0103)},
        g \in {None, Some(DAILY), Some(MONTHLY)},
        b \in {None, Some(SERVICE), Some(NONE)} }

NextDefaults ==
    \/ \E d \in ClockSteps : Advance(d)
    \/ \E q \in DefaultQueries : Receive(1, q)
    \/ \E out \in DetailOuts(req[1].groupBy) : DetailResolves(1, out)
    \/ \E out \in SummaryOuts : SummaryResolves(1, out)
    \/ Complete(1)

SpecDefaults == Init /\ [][NextDefaults]_vars

\* request r was received with a valid query
Accepted(r) == IsSome(req[r].query) /\ req[r].status # 400

\* the step part of C13: what the parameters resolve to on receipt
C13_DefaultsStep ==
    \A r \in Reqs :
        (IsNone(req[r].query) /\ IsSome(req'[r].query) /\ req'[r].status # 400) =>
            LET q == req'[r].query[1]
                x == req'[r]
                today == EpochDay(now)
            IN  /\ MatchesDate(x.end) /\ MatchesDate(x.start)
                /\ IF IsSome(q.end) THEN x.end = q.end[1]
                   ELSE DayNumber(x.end) = today
                /\ IF IsSome(q.start) THEN x.start = q.start[1]
                   ELSE DayNumber(x.start) = today - DefaultWindowDays
                /\ IF IsSome(q.granularity) THEN x.granularity = q.granularity[1]
                   ELSE x.granularity = DAILY
                /\ IF IsSome(q.groupBy) THEN x.groupBy = q.groupBy[1]
                   ELSE x.groupBy = SERVICE

\* the resolved values are those of the cache key, of the time period of
\* both commands, of the detail command's granularity and grouping, and of
\* the payload
ResolvedUsed(r) ==
    /\ req[r].key = cacheKeyOf(req[r].start, req[r].end,
                               req[r].granularity, req[r].groupBy)
    /\ req[r].sends = 2 =>
          /\ IsSome(req[r].cmd) /\ IsSome(req[r].summaryCmd)
          /\ req[r].cmd[1].TimePeriod = [Start |-> req[r].start, End |-> req[r].end]
          /\ req[r].summaryCmd[1].TimePeriod = req[r].cmd[1].TimePeriod
          /\ req[r].cmd[1].Granularity = req[r].granularity
          /\ IsSome(req[r].cmd[1].GroupBy) <=> req[r].groupBy = SERVICE
    /\ req[r].status = 200 => Dims(req[r].body[1]) = Dims(req[r])

\* the state part of C13
C13_UsedState == \A r \in Reqs : Accepted(r) => ResolvedUsed(r)

\* C13 (as amended): an omitted end resolves to today's date and an omitted
\* start to the date 30 days before today, whatever the other one is, each
\* as YYYY-MM-DD; an omitted granularity resolves to DAILY and an omitted
\* groupBy to SERVICE; supplied values are used unchanged.  The resolved
\* values are those of the cache key and of the returned payload; the
\* resolved start and end are the time period of both upstream requests; the
\* resolved granularity and groupBy are used in the detail request.
C13_QueryDefaults == [](C13_UsedState) /\ [][C13_DefaultsStep]_vars

\* C13 as stated: all four resolved values are used in the cache key, in
\* both upstream requests and in the returned payload.
C13_UsedInBothRequests ==
    \A r \in Reqs :
        Accepted(r) =>
            /\ ResolvedUsed(r)
            /\ req[r].sends = 2 =>
                  /\ req[r].summaryCmd[1].Granularity = req[r].granularity
                  /\ req[r].summaryCmd[1].GroupBy = req[r].cmd[1].GroupBy

\* C13 witness: a request without any parameter, received after midnight,
\* was answered 200 for the thirty days up to the new day, its summary
\* request being MONTHLY while its detail request was DAILY by SERVICE
C13_Witness ==
    \E r \in Reqs :
        /\ req[r].query = Some(Query(None, None, None, None))
        /\ req[r].status = 200
        /\ req[r].end = isoDate(StartDay + 1)
        /\ DayNumber(req[r].start) = StartDay + 1 - DefaultWindowDays
        /\ req[r].body[1].start = req[r].start
        /\ req[r].cmd[1].Granularity = DAILY
        /\ IsSome(req[r].cmd[1].GroupBy)
        /\ req[r].summaryCmd[1].Granularity = MONTHLY

----------------------------------------------------------------------------
(* Claims about concurrent requests and cache hits (specification Spec)     *)

\* request r does its cache lookup in this step
LooksUp(r) == req[r].gets = 0 /\ req'[r].gets = 1

\* request r does its cache write in this step
Writes(r) == req'[r].sets = req[r].sets + 1

\* key k has an unexpired entry now
Live(k) == Has(cache, k) /\ ~(now > cache[k].expiresAt)

\* C14 as stated: between the lookup of a request and its write no other
\* request for the same key does its lookup or its write.
C14_ReadCheckWriteAtomic ==
    [][\A r, o \in Reqs :
          (r # o /\ req[r].pc = "awaiting" /\ req'[o].key = req[r].key) =>
              ~LooksUp(o) /\ ~Writes(o)]_vars

\* the step part of C14
C14_SegmentsStep ==
    \A r \in Reqs :
        /\ LooksUp(r) =>
              /\ req'[r].sets = 0
              /\ req'[r].pc \in {"done", "awaiting"}
              /\ req'[r].pc = "awaiting" <=> ~Live(req'[r].key)
              /\ req'[r].pc = "done" =>
                    req'[r].body = Some(cache[req'[r].key].value)
        /\ Writes(r) =>
              /\ req[r].gets = 1 /\ req[r].pc = "awaiting"
              /\ req[r].detail.st = "ok" /\ req[r].summary.st = "ok"
        /\ (LooksUp(r) \/ Writes(r)) => \A o \in Reqs \ {r} : req'[o] = req[o]

\* C14 (as amended): the lookup and the miss check of a request happen in
\* one synchronous segment, decided by the cache as it is at the lookup; the
\* write happens in a later segment, once both upstream calls have resolved;
\* no other request acts within either segment.
C14_LookupAndWriteSegments == [][C14_SegmentsStep]_vars

\* C14 witness: while a request that missed is still waiting for its
\* upstream calls, a later request for the same key has done its lookup,
\* missed as well, and has written the key
C14_Witness ==
    \E r, o \in Reqs :
        /\ r < o
        /\ req[r].pc = "awaiting"
        /\ req[o].key = req[r].key
        /\ req[o].gets = 1 /\ req[o].sets = 1
        /\ ticks = 0
        /\ Has(cache, req[r].key)

\* the state part of C15
C15_OwnCallsState ==
    \A r \in Reqs :
        /\ (req[r].gets = 1 /\ ~(req[r].status = 200 /\ req[r].sets = 0)) =>
              /\ req[r].sends = 2
              /\ IsSome(req[r].cmd) /\ IsSome(req[r].summaryCmd)
        /\ (req[r].status = 200 /\ req[r].sets = 1) =>
              /\ req[r].body[1].results = normalize(req[r].detail.out[1])
              /\ req[r].body[1].summary = classify(req[r].summary.out[1])

\* the step part of C15: a write replaces whatever entry the key has and
\* starts its time to live anew
C15_OverwriteStep ==
    \A r \in Reqs :
        Writes(r) =>
            /\ Has(cache', req[r].key)
            /\ cache'[req[r].key] =
                  [expiresAt |-> now + CACHE_TTL_MS, value |-> req'[r].body[1]]

C16_HitState ==
    \A r \in Reqs :
        /\ (req[r].status = 200 /\ req[r].sets = 0) =>
              /\ req[r].sends = 0
              /\ IsNone(req[r].cmd) /\ IsNone(req[r].summaryCmd)
              /\ req[r].detail.st = "none" /\ req[r].summary.st = "none"
        /\ req[r].sends > 0 =>
              /\ req[r].gets = 1
              /\ req[r].status = 200 => req[r].sets = 1

\* the step part of C16
C16_HitStep ==
    \A r \in Reqs :
        /\ (LooksUp(r) /\ Live(req'[r].key)) =>
              /\ req'[r].pc = "done"
              /\ req'[r].status = 200
              /\ req'[r].body = Some(cache[req'[r].key].value)
              /\ req'[r].sends = 0
              /\ cache' = cache
        /\ req'[r].sends > req[r].sends =>
              /\ LooksUp(r)
              /\ ~Live(req'[r].key)
        /\ req[r].pc = "done" => req'[r] = req[r]

\* C16: a valid request whose key has an unexpired entry at its lookup is
\* answered 200 with exactly the cached payload, issues no upstream call
\* then or later, and leaves the cache as it was, expiry included; a
\* request issues upstream calls only in the step of a lookup that found no
\* entry or an expired one.
C16_HitShortCircuits == [](C16_HitState) /\ [][C16_HitStep]_vars

\* C16 witness: after the clock moved to the very expiry time of an entry,
\* a request was answered from it without upstream calls, and the entry
\* still expires at that time
C16_Witness ==
    \E r, o \in Reqs :
        /\ o < r
        /\ req[o].sets = 1
        /\ req[r].status = 200 /\ req[r].sets = 0 /\ req[r].sends = 0
        /\ req[r].key = req[o].key
        /\ Has(cache, req[r].key)
        /\ req[r].body = Some(cache[req[r].key].value)
        /\ ticks = 1
        /\ cache[req[r].key].expiresAt = now

====
